---- MODULE Spec2Model ----
(***************************************************************************)
(* Model of KnightTourText.cpp: an open knight's tour by Warnsdorff's      *)
(* rule.  The board is a grid of ints (0 = unvisited, 1 = the knight is    *)
(* here, 2 = visited).  makeMove recurses once per move; every recursion   *)
(* level is one step of the model, acting on the board copy of the         *)
(* innermost call.                                                         *)
(*                                                                         *)
(* Three specifications are given:                                         *)
(*   Spec     the program from the placement of the knight (main, lines    *)
(*            186-194) through the recursion of makeMove to the final      *)
(*            message, for every board size from 1 x 1 up to MaxDim x      *)
(*            MaxDim and every start square (main itself only accepts 3 to *)
(*            10 rows and columns; makeMove takes any board);              *)
(*   SpecGen  a single call of findMovesFromSquare on an arbitrary source  *)
(*            position (on the board or not) and an arbitrary board drawn  *)
(*            from bounded sets;                                           *)
(*   SpecInput  main's collection of the board size and the start square   *)
(*            from the console (lines 183-184), character by character,    *)
(*            up to the placement of the knight.                           *)
(***************************************************************************)
EXTENDS Integers, Sequences, FiniteSets

VARIABLES
    boardX,      \* number of rows    (boardSize.first)
    boardY,      \* number of columns (boardSize.second)
    start,       \* main's start pair, 0-indexed
    Board,       \* Board[r][c] of the innermost makeMove call
    knightRow,   \* makeMove's knightRow
    knightCol,   \* makeMove's knightCol
    movesMade,   \* main's counter, passed by reference
    pc,          \* position in the program
    message,     \* final line written by main, "" while none is written
    printCount,  \* number of calls of printBoard so far
    lastPrinted, \* glyphs written by the latest printBoard
    path,        \* history: the squares the knight has occupied, in order
    buffer,      \* characters of the current console line not yet read by cin
    eof,         \* the console input has ended
    prompt,      \* text of the latest prompt written by inputInteger
    x,           \* SpecGen: source row given to findMovesFromSquare
    y,           \* SpecGen: source column given to findMovesFromSquare
    moveArray    \* SpecGen: vector returned by findMovesFromSquare

vars == <<boardX, boardY, start, Board, knightRow, knightCol, movesMade, pc,
          message, printCount, lastPrinted, path, buffer, eof, prompt,
          x, y, moveArray>>

----------------------------------------------------------------------------
(* Bounds *)

\* largest number of rows / columns explored by Spec
MaxDim == 5

\* largest number of rows and of columns explored by SpecGen
GenMaxRows == 3
GenMaxCols == 4

\* largest number of cells that are not Unvisited on a board drawn by SpecGen
GenMaxMarked == 2

\* largest number of characters on one console line explored by SpecInput
MaxLineLen == 3

----------------------------------------------------------------------------
(* printBoard, lines 27-45: the glyph written for every cell *)

Glyph(v) == CASE v = 1 -> "[K]"
              [] v = 2 -> "[/]"
              [] OTHER -> "[ ]"

printBoard(B) == [i \in DOMAIN B |-> [j \in DOMAIN B[i] |-> Glyph(B[i][j])]]

----------------------------------------------------------------------------
(* findMinimumIndex, lines 53-63.  vec is a TLA+ sequence, so the C++      *)
(* element vec[i] is vec[i + 1]; the returned index is the C++ (0-based)   *)
(* one.                                                                    *)

\* lines 56-61 with <= for < in line 57: the last smallest element wins
RECURSIVE findMinimumIndexLoopLast(_, _, _, _)
findMinimumIndexLoopLast(vec, i, smallest, index) ==
    IF i < Len(vec)
    THEN IF vec[i + 1] <= smallest
         THEN findMinimumIndexLoopLast(vec, i + 1, vec[i + 1], i)
         ELSE findMinimumIndexLoopLast(vec, i + 1, smallest, index)
    ELSE index

\* lines 56-61 with > for < in line 57: the largest element wins
RECURSIVE findMinimumIndexLoopLargest(_, _, _, _)
findMinimumIndexLoopLargest(vec, i, smallest, index) ==
    IF i < Len(vec)
    THEN IF vec[i + 1] > smallest
         THEN findMinimumIndexLoopLargest(vec, i + 1, vec[i + 1], i)
         ELSE findMinimumIndexLoopLargest(vec, i + 1, smallest, index)
    ELSE index

RECURSIVE findMinimumIndexLoop(_, _, _, _)
findMinimumIndexLoop(vec, i, smallest, index) ==
    IF i < Len(vec)
    THEN IF vec[i + 1] < smallest
         THEN findMinimumIndexLoop(vec, i + 1, vec[i + 1], i)
         ELSE findMinimumIndexLoop(vec, i + 1, smallest, index)
    ELSE index

findMinimumIndex(vec) == findMinimumIndexLoop(vec, 1, vec[1], 0)

----------------------------------------------------------------------------
(* isOnBoard, lines 72-74 *)

\* line 73 with >= for > in both comparisons with the board size
isOnBoardInclusive(px, py, bX, bY) == (px >= 0) /\ (bX >= px) /\ (py >= 0) /\ (bY >= py)

isOnBoard(px, py, bX, bY) == (px >= 0) /\ (bX > px) /\ (py >= 0) /\ (bY > py)

----------------------------------------------------------------------------
(* findMovesFromSquare, lines 85-97.  dx[i], dy[i] of the C++ arrays are   *)
(* dx[i + 1], dy[i + 1] here.                                              *)

\* line 87 with the sign of the last entry wrong
dxLastNegative == <<2, 1, -1, -2, -2, -1, 1, -2>>

dx == <<2, 1, -1, -2, -2, -1, 1, 2>>
dy == <<1, 2, 2, 1, -1, -2, -2, -1>>

\* line 92 without the test for a visited cell
keepMoveOnBoardOnly(newX, newY, bX, bY, B) == isOnBoard(newX, newY, bX, bY)

\* line 92 comparing with the mark of the knight instead of the Visited mark
keepMoveNotCurrent(newX, newY, bX, bY, B) == isOnBoard(newX, newY, bX, bY) /\ B[newX][newY] # 1

\* line 92: the cell is read only when the position is on the board
keepMove(newX, newY, bX, bY, B) == isOnBoard(newX, newY, bX, bY) /\ B[newX][newY] # 2

RECURSIVE findMovesLoop(_, _, _, _, _, _, _)
findMovesLoop(i, acc, px, py, bX, bY, B) ==
    IF i < 8
    THEN LET newX == px + dx[i + 1]
             newY == py + dy[i + 1]
         IN  IF keepMove(newX, newY, bX, bY, B)
             THEN findMovesLoop(i + 1, Append(acc, <<newX, newY>>), px, py, bX, bY, B)
             ELSE findMovesLoop(i + 1, acc, px, py, bX, bY, B)
    ELSE acc

findMovesFromSquare(px, py, bX, bY, B) == findMovesLoop(0, <<>>, px, py, bX, bY, B)

----------------------------------------------------------------------------
(* makeMove, lines 114-136 *)

\* line 118 testing for more than one legal move
hasMovesMoreThanOne(array) == Len(array) > 1

\* line 118: there is a legal move
hasMoves(array) == array # <<>>

\* lines 120-122: the number of continuing moves of every legal move
sizesOf(array, bX, bY, B) ==
    [k \in 1..Len(array) |->
        Len(findMovesFromSquare(array[k][1], array[k][2], bX, bY, B))]

\* lines 127-128 without the assignment of line 127
BoardAfterMoveKeepsKnight(B, kRow, kCol, nextMove) ==
    [B EXCEPT ![nextMove[1]][nextMove[2]] = 1]

\* lines 127-128 with 0 for 2 in line 127: the square left is cleared
BoardAfterMoveClearsOld(B, kRow, kCol, nextMove) ==
    LET B1 == [B EXCEPT ![kRow][kCol] = 0]
    IN  [B1 EXCEPT ![nextMove[1]][nextMove[2]] = 1]

\* lines 127-128: the board after the knight has moved to nextMove
BoardAfterMove(B, kRow, kCol, nextMove) ==
    LET B1 == [B EXCEPT ![kRow][kCol] = 2]
    IN  [B1 EXCEPT ![nextMove[1]][nextMove[2]] = 1]

\* one invocation of makeMove that finds a legal move (lines 115-133); the
\* locals array, sizes, index and nextMove are bound to their values once
makeMoveStep ==
    /\ pc = "makeMove"
    /\ \E array \in {findMovesFromSquare(knightRow, knightCol, boardX, boardY, Board)} :
         /\ hasMoves(array)
         /\ \E sizes \in {sizesOf(array, boardX, boardY, Board)} :
            \E index \in {findMinimumIndex(sizes)} :
            \E nextMove \in {array[index + 1]} :
            \E NewBoard \in {BoardAfterMove(Board, knightRow, knightCol, nextMove)} :
               /\ Board' = NewBoard
               /\ knightRow' = nextMove[1]
               /\ knightCol' = nextMove[2]
               /\ lastPrinted' = printBoard(NewBoard)
               /\ printCount' = printCount + 1
               /\ movesMade' = movesMade + 1
               /\ path' = Append(path, nextMove)
    /\ UNCHANGED <<boardX, boardY, start, pc, message, x, y, moveArray,
                   buffer, eof, prompt>>

\* makeMove with the printBoard of line 131 placed after the if block: the
\* invocation that finds no legal move writes the board once more
makeMoveReturnPrints ==
    /\ pc = "makeMove"
    /\ ~hasMoves(findMovesFromSquare(knightRow, knightCol, boardX, boardY, Board))
    /\ pc' = "returned"
    /\ lastPrinted' = printBoard(Board)
    /\ printCount' = printCount + 1
    /\ UNCHANGED <<boardX, boardY, start, Board, knightRow, knightCol, movesMade,
                   message, path, x, y, moveArray,
                   buffer, eof, prompt>>

\* makeMove with the assignment of line 127 placed before the if: the
\* invocation that finds no legal move marks the knight's square Visited
makeMoveReturnMarksVisited ==
    /\ pc = "makeMove"
    /\ ~hasMoves(findMovesFromSquare(knightRow, knightCol, boardX, boardY, Board))
    /\ pc' = "returned"
    /\ Board' = [Board EXCEPT ![knightRow][knightCol] = 2]
    /\ UNCHANGED <<boardX, boardY, start, knightRow, knightCol, movesMade,
                   message, printCount, lastPrinted, path, x, y, moveArray,
                   buffer, eof, prompt>>

\* the invocation of makeMove that finds no legal move: the if of line 118
\* is skipped and the whole chain of calls returns to main
makeMoveReturn ==
    /\ pc = "makeMove"
    /\ ~hasMoves(findMovesFromSquare(knightRow, knightCol, boardX, boardY, Board))
    /\ pc' = "returned"
    /\ UNCHANGED <<boardX, boardY, start, Board, knightRow, knightCol, movesMade,
                   message, printCount, lastPrinted, path, x, y, moveArray,
                   buffer, eof, prompt>>

----------------------------------------------------------------------------
(* main, lines 181-202 *)

\* lines 195-200 comparing with rows * cols
finalMessageAllCells(moves, bX, bY) ==
    IF moves = (bX * bY) THEN "Tour Completed!" ELSE "No More Moves!"

\* lines 195-200 with <= for == in line 195
finalMessageAtMost(moves, bX, bY) ==
    IF moves <= (bX * bY) - 1 THEN "Tour Completed!" ELSE "No More Moves!"

\* lines 195-200: the final message
finalMessage(moves, bX, bY) ==
    IF moves = (bX * bY) - 1 THEN "Tour Completed!" ELSE "No More Moves!"

mainReport ==
    /\ pc = "returned"
    /\ message' = finalMessage(movesMade, boardX, boardY)
    /\ pc' = "done"
    /\ UNCHANGED <<boardX, boardY, start, Board, knightRow, knightCol, movesMade,
                   printCount, lastPrinted, path, x, y, moveArray,
                   buffer, eof, prompt>>

\* line 187: a board of zeroes; line 190: the knight on its start square
InitialBoard(bX, bY, s) ==
    [[i \in 0..(bX - 1) |-> [j \in 0..(bY - 1) |-> 0]] EXCEPT ![s[1]][s[2]] = 1]

\* the state of main at line 194, right before the first call of makeMove
Init ==
    /\ boardX \in 1..MaxDim
    /\ boardY \in 1..MaxDim
    /\ start \in (0..(boardX - 1)) \X (0..(boardY - 1))
    /\ Board = InitialBoard(boardX, boardY, start)
    /\ knightRow = start[1]
    /\ knightCol = start[2]
    /\ movesMade = 0
    /\ pc = "makeMove"
    /\ message = ""
    /\ printCount = 1
    /\ lastPrinted = printBoard(Board)
    /\ path = <<start>>
    /\ buffer = <<>>
    /\ eof = FALSE
    /\ prompt = "Enter starting column of knight:"
    /\ x = 0
    /\ y = 0
    /\ moveArray = <<>>

Next == makeMoveStep \/ makeMoveReturn \/ mainReport

Spec == Init /\ [][Next]_vars

\* the program is one sequential thread: a step that can be taken is taken
FairSpec == Spec /\ WF_vars(Next)

----------------------------------------------------------------------------
(* SpecGen: one call of findMovesFromSquare.  The board has at most        *)
(* GenMaxMarked cells that are not Unvisited, each of them Visited or      *)
(* Current, anywhere; the source position ranges over the board and two    *)
(* squares beyond each edge, which are all positions a knight move can     *)
(* reach the board from.                                                   *)

GenCells(bX, bY) == (0..(bX - 1)) \X (0..(bY - 1))

GenBoard(bX, bY, visited, current) ==
    [i \in 0..(bX - 1) |-> [j \in 0..(bY - 1) |->
        IF <<i, j>> \in visited THEN 2
        ELSE IF <<i, j>> \in current THEN 1 ELSE 0]]

GenInit ==
    /\ boardX \in 1..GenMaxRows
    /\ boardY \in 1..GenMaxCols
    /\ \E marked \in SUBSET GenCells(boardX, boardY) :
         /\ Cardinality(marked) <= GenMaxMarked
         /\ \E visited \in SUBSET marked :
               Board = GenBoard(boardX, boardY, visited, marked \ visited)
    /\ x \in (-2)..(boardX + 1)
    /\ y \in (-2)..(boardY + 1)
    /\ moveArray = <<>>
    /\ pc = "call"
    /\ start = <<0, 0>>
    /\ knightRow = 0
    /\ knightCol = 0
    /\ movesMade = 0
    /\ message = ""
    /\ printCount = 0
    /\ lastPrinted = <<>>
    /\ path = <<>>
    /\ buffer = <<>>
    /\ eof = FALSE
    /\ prompt = ""

GenCall ==
    /\ pc = "call"
    /\ moveArray' = findMovesFromSquare(x, y, boardX, boardY, Board)
    /\ pc' = "ret"
    /\ UNCHANGED <<boardX, boardY, start, Board, knightRow, knightCol, movesMade,
                   message, printCount, lastPrinted, path, x, y,
                   buffer, eof, prompt>>

GenNext == GenCall

SpecGen == GenInit /\ [][GenNext]_vars

----------------------------------------------------------------------------
(* Console input: inputInteger (lines 146-155), getPairFromUser (lines     *)
(* 169-174) and the two calls of main (lines 183-184).  A console line is  *)
(* a sequence of characters; its terminating newline is implicit.          *)

\* the characters the console delivers in SpecInput: three digits, a sign,
\* a letter and a blank
InputChars == {"0", "1", "3", "-", "x", " "}

\* the lines the console delivers; operator >> passes over a line of blanks
\* as over any white space, so such lines are left out
InputLines ==
    {l \in UNION {[1..n -> InputChars] : n \in 1..MaxLineLen} :
        \E k \in 1..Len(l) : l[k] # " "}

IsDigit(ch) == ch \in {"0", "1", "2", "3", "4", "5", "6", "7", "8", "9"}

DigitValue(ch) ==
    CASE ch = "0" -> 0 [] ch = "1" -> 1 [] ch = "2" -> 2 [] ch = "3" -> 3
      [] ch = "4" -> 4 [] ch = "5" -> 5 [] ch = "6" -> 6 [] ch = "7" -> 7
      [] ch = "8" -> 8 [] ch = "9" -> 9

\* operator >> first passes over leading white space
RECURSIVE skipWs(_)
skipWs(b) == IF b # <<>> /\ Head(b) = " " THEN skipWs(Tail(b)) ELSE b

\* the digits at the front of b, accumulated into acc; n counts them
RECURSIVE readDigits(_, _, _)
readDigits(b, acc, n) ==
    IF b # <<>> /\ IsDigit(Head(b))
    THEN readDigits(Tail(b), (acc * 10) + DigitValue(Head(b)), n + 1)
    ELSE [value |-> acc, count |-> n, rest |-> b]

\* std::cin >> i of line 150 on the characters b: an optional sign and the
\* digits that follow are taken, the rest stays in the stream; without a
\* digit the extraction fails and i is 0.  (Numbers of MaxLineLen digits fit
\* an int.)
extractInt(b) ==
    LET b0     == skipWs(b)
        signed == b0 # <<>> /\ Head(b0) \in {"-", "+"}
        neg    == b0 # <<>> /\ Head(b0) = "-"
        d      == readDigits(IF signed THEN Tail(b0) ELSE b0, 0, 0)
    IN  [ok   |-> d.count > 0,
         i    |-> IF d.count > 0 THEN (IF neg THEN 0 - d.value ELSE d.value) ELSE 0,
         rest |-> d.rest]

\* line 150 without the test against the upper bound
inputAcceptedNoUpper(ok, i, lowerBound, upperBound) ==
    ok /\ (i >= lowerBound)

\* line 150: an integer was read and lies within the bounds
inputAccepted(ok, i, lowerBound, upperBound) ==
    ok /\ (i >= lowerBound) /\ (i <= upperBound)

InputPhases == {"rows", "cols", "startRow", "startCol"}

\* the arguments main passes on, by way of getPairFromUser, to the call of
\* inputInteger that phase p stands for (lines 183-184, 170-171)
lowerBoundOf(p) == IF p \in {"rows", "cols"} THEN 3 ELSE 1

upperBoundOf(p) ==
    CASE p = "rows"     -> 10
      [] p = "cols"     -> 10
      [] p = "startRow" -> boardX
      [] p = "startCol" -> boardY

offsetOf(p) == IF p \in {"rows", "cols"} THEN 0 ELSE 1

textOf(p) ==
    CASE p = "rows"     -> "Enter number of rows (between 3-10):"
      [] p = "cols"     -> "Enter number of columns (between 3-10):"
      [] p = "startRow" -> "Enter starting row of knight:"
      [] p = "startCol" -> "Enter starting column of knight:"

\* the call of inputInteger that follows the one of phase p
phaseAfter(p) ==
    CASE p = "rows"     -> "cols"
      [] p = "cols"     -> "startRow"
      [] p = "startRow" -> "startCol"
      [] p = "startCol" -> "place"

\* lines 170-172: the value returned by inputInteger, less the offset, is
\* kept by getPairFromUser and ends up in boardSize or start
storeInput(p, v) ==
    /\ boardX' = IF p = "rows" THEN v ELSE boardX
    /\ boardY' = IF p = "cols" THEN v ELSE boardY
    /\ start'  = IF p = "startRow" THEN <<v, start[2]>>
                 ELSE IF p = "startCol" THEN <<start[1], v>> ELSE start

\* one iteration of the loop of inputInteger (lines 148-153): the prompt is
\* written and an integer is extracted, from the rest of the current line
\* or, when nothing but blanks is left of it, from the next line the console
\* delivers; the console may also have ended (every extraction fails then).
\* A value within the bounds ends the loop and leaves the rest of the line
\* in the stream; otherwise clear and ignore drop the rest of the line.
inputIntegerIteration ==
    /\ pc \in InputPhases
    /\ prompt' = textOf(pc)
    /\ \E ended \in (IF eof THEN {TRUE}
                     ELSE IF skipWs(buffer) = <<>> THEN {TRUE, FALSE} ELSE {FALSE}) :
         IF ended
         THEN /\ eof' = TRUE
              /\ buffer' = <<>>
              /\ UNCHANGED <<pc, boardX, boardY, start>>
         ELSE /\ eof' = eof
              /\ \E line \in (IF skipWs(buffer) = <<>> THEN InputLines ELSE {buffer}) :
                 \E r \in {extractInt(line)} :
                    IF inputAccepted(r.ok, r.i, lowerBoundOf(pc), upperBoundOf(pc))
                    THEN /\ buffer' = r.rest
                         /\ storeInput(pc, r.i - offsetOf(pc))
                         /\ pc' = phaseAfter(pc)
                    ELSE /\ buffer' = <<>>
                         /\ UNCHANGED <<pc, boardX, boardY, start>>
    /\ UNCHANGED <<Board, knightRow, knightCol, movesMade, message, printCount,
                   lastPrinted, path, x, y, moveArray>>

\* main, lines 186-194: the board is created, the knight placed, the board
\* written, and makeMove is about to be called
mainPlace ==
    /\ pc = "place"
    /\ Board' = InitialBoard(boardX, boardY, start)
    /\ knightRow' = start[1]
    /\ knightCol' = start[2]
    /\ movesMade' = 0
    /\ printCount' = 1
    /\ lastPrinted' = printBoard(InitialBoard(boardX, boardY, start))
    /\ path' = <<start>>
    /\ pc' = "makeMove"
    /\ UNCHANGED <<boardX, boardY, start, message, buffer, eof, prompt, x, y, moveArray>>

\* main at line 183: nothing has been read or written
InputInit ==
    /\ pc = "rows"
    /\ boardX = -1
    /\ boardY = -1
    /\ start = <<-1, -1>>
    /\ Board = <<>>
    /\ knightRow = -1
    /\ knightCol = -1
    /\ movesMade = 0
    /\ message = ""
    /\ printCount = 0
    /\ lastPrinted = <<>>
    /\ path = <<>>
    /\ buffer = <<>>
    /\ eof = FALSE
    /\ prompt = ""
    /\ x = 0
    /\ y = 0
    /\ moveArray = <<>>

InputNext == inputIntegerIteration \/ mainPlace

SpecInput == InputInit /\ [][InputNext]_vars

----------------------------------------------------------------------------
(* Vocabulary of the properties, stated on the board itself and not through *)
(* the functions of the program.                                            *)

Cells == (0..(boardX - 1)) \X (0..(boardY - 1))

CellsIn(v) == {c \in Cells : Board[c[1]][c[2]] = v}

\* the eight knight moves in the order the move generator tries them
KnightOffsets ==
    <<<<2, 1>>, <<1, 2>>, <<-1, 2>>, <<-2, 1>>, <<-2, -1>>, <<-1, -2>>, <<1, -2>>, <<2, -1>>>>

\* the squares of board B one knight move away from (r, c) and not Visited
LegalOn(B, r, c) ==
    {q \in Cells : /\ \E k \in 1..8 : q = <<r + KnightOffsets[k][1], c + KnightOffsets[k][2]>>
                   /\ B[q[1]][q[2]] # 2}

LegalFromKnight == LegalOn(Board, knightRow, knightCol)

Halted == pc \in {"returned", "done"}

----------------------------------------------------------------------------
(* Properties of the tour driver (Spec, FairSpec) *)

\* C1: on every board and from every start square, movesMade never exceeds
\* rows * cols - 1, in any state of the run, the halted ones included.
C1_MoveCountBounded == movesMade <= (boardX * boardY) - 1

\* a run that has halted with the largest possible count on a board where
\* the knight can move
C1_Witness ==
    /\ Halted
    /\ boardX * boardY > 1
    /\ movesMade = (boardX * boardY) - 1

\* C2: the driver eventually halts, after at most rows * cols - 1 steps; it
\* halts exactly at the first invocation that has no legal move from the
\* knight's square: with a legal move left it moves, with none it stops.
C2_HaltsAtFirstDeadEnd ==
    /\ <>Halted
    /\ [](Halted => (LegalFromKnight = {} /\ movesMade <= (boardX * boardY) - 1))
    /\ [][(pc = "makeMove" /\ LegalFromKnight # {})
            => (pc' = "makeMove" /\ movesMade' = movesMade + 1)]_vars
    /\ [][(pc = "makeMove" /\ LegalFromKnight = {})
            => (pc' = "returned" /\ movesMade' = movesMade /\ Board' = Board)]_vars

\* a run that made some moves and halted at a dead end before the board was
\* covered
C2_Witness ==
    /\ pc = "returned"
    /\ movesMade > 0
    /\ movesMade < (boardX * boardY) - 1
    /\ LegalFromKnight = {}

\* C4: in every state of a run exactly one cell is Current, and it is the
\* cell at (knightRow, knightCol).
C4_ExactlyOneCurrent == CellsIn(1) = {<<knightRow, knightCol>>}

\* a state in the middle of a run, after the Current mark has moved twice
C4_Witness ==
    /\ pc = "makeMove"
    /\ movesMade >= 2
    /\ LegalFromKnight # {}
    /\ <<knightRow, knightCol>> # start

\* C5: a cell only ever goes Unvisited -> Current -> Visited, a Visited cell
\* never changes again, a cell becomes Visited only from Current, and the
\* knight only moves onto an Unvisited cell that it never occupied before.
C5_NoRevisit ==
    [][LET to == <<knightRow', knightCol'>>
           from == <<knightRow, knightCol>>
       IN  /\ \A c \in Cells :
                 LET old == Board[c[1]][c[2]]
                     new == Board'[c[1]][c[2]]
                 IN  /\ (old = 0) => (new \in {0, 1})
                     /\ (old = 1) => (new \in {1, 2})
                     /\ (old = 2) => (new = 2)
           /\ (to # from) => (Board[to[1]][to[2]] = 0)
           /\ (to # from) => (\A k \in 1..Len(path) : path[k] # to)
           /\ (movesMade' # movesMade) => (to # from)]_vars

\* a state in which the knight stands next to a Visited cell it could jump
\* to if Visited cells were not excluded
C5_Witness ==
    /\ pc = "makeMove"
    /\ movesMade >= 2
    /\ \E k \in 1..8 :
         LET r == knightRow + KnightOffsets[k][1]
             c == knightCol + KnightOffsets[k][2]
         IN  <<r, c>> \in Cells /\ Board[r][c] = 2
    /\ LegalFromKnight # {}

\* C8: once the driver has halted, movesMade = rows * cols - 1 exactly when
\* no cell is Unvisited, and then the knight has occupied every cell exactly
\* once, starting from the start cell; main writes "Tour Completed!" in
\* exactly that case and "No More Moves!" otherwise.
C8_CompleteIffAllCellsCovered ==
    /\ Halted => ((movesMade = (boardX * boardY) - 1) <=> (CellsIn(0) = {}))
    /\ (Halted /\ CellsIn(0) = {})
         => (/\ Len(path) = boardX * boardY
             /\ path[1] = start
             /\ {path[k] : k \in 1..Len(path)} = Cells)
    /\ (pc = "done" /\ CellsIn(0) = {}) => (message = "Tour Completed!")
    /\ (pc = "done" /\ CellsIn(0) # {}) => (message = "No More Moves!")
    /\ (pc # "done") => (message = "")

\* a finished run that covered a board of at least twelve cells
C8_Witness ==
    /\ pc = "done"
    /\ boardX * boardY >= 12
    /\ CellsIn(0) = {}
    /\ message = "Tour Completed!"

\* the number of onward squares of q, counted on board B
OnwardCount(B, q) == Cardinality(LegalOn(B, q[1], q[2]))

\* the place of square q in the offset order, seen from (r, c)
OffsetRank(r, c, q) ==
    CHOOSE k \in 1..8 : q = <<r + KnightOffsets[k][1], c + KnightOffsets[k][2]>>

\* C9: at every step the square moved to is a legal move from the knight's
\* square whose number of onward squares, counted on the board as it is
\* before the move, is the smallest among all legal moves, and among the
\* legal moves with that smallest number it is the first in offset order.
C9_WarnsdorffChoice ==
    [][(movesMade' # movesMade) =>
         LET to   == <<knightRow', knightCol'>>
             cand == LegalOn(Board, knightRow, knightCol)
         IN  /\ to \in cand
             /\ \A q \in cand :
                   \/ OnwardCount(Board, to) < OnwardCount(Board, q)
                   \/ /\ OnwardCount(Board, to) = OnwardCount(Board, q)
                      /\ OffsetRank(knightRow, knightCol, to)
                            <= OffsetRank(knightRow, knightCol, q)]_vars

\* a state, some moves into a run, from which the first legal move in offset
\* order does not have the smallest count and two legal moves tie for it
C9_Witness ==
    /\ pc = "makeMove"
    /\ movesMade >= 1
    /\ LET cand == LegalFromKnight
       IN  /\ Cardinality(cand) >= 3
           /\ \E a \in cand : \E b \in cand :
                 /\ a # b
                 /\ OnwardCount(Board, a) = OnwardCount(Board, b)
                 /\ \A q \in cand : OnwardCount(Board, a) <= OnwardCount(Board, q)
                 /\ \E q \in cand :
                       /\ OnwardCount(Board, q) > OnwardCount(Board, a)
                       /\ OffsetRank(knightRow, knightCol, q)
                             < OffsetRank(knightRow, knightCol, a)

\* C10: on a 5 x 5 board with the knight started at (0, 0) the driver halts
\* with movesMade = 24 and main writes "Tour Completed!".
C10_FiveByFiveFromCorner ==
    (boardX = 5 /\ boardY = 5 /\ start = <<0, 0>>)
        => (/\ Halted => (movesMade = 24)
            /\ (pc = "done") => (message = "Tour Completed!"))

\* the finished run on the 5 x 5 board from (0, 0)
C10_Witness ==
    /\ boardX = 5
    /\ boardY = 5
    /\ start = <<0, 0>>
    /\ pc = "done"
    /\ movesMade = 24

----------------------------------------------------------------------------
(* Properties of the move generator (SpecGen) *)

\* the eight squares one knight move away from the source, in offset order
Targets == [k \in 1..8 |-> <<x + KnightOffsets[k][1], y + KnightOffsets[k][2]>>]

\* a square that is on the board and not Visited
Qualifies(p) == p \in Cells /\ Board[p[1]][p[2]] # 2

\* C6: for every source position, on the board or not, and every board,
\* findMovesFromSquare returns only positions (r, c) with 0 <= r < rows and
\* 0 <= c < cols whose cell is not Visited.
C6_OnBoardNotVisited ==
    (pc = "ret") =>
        \A k \in 1..Len(moveArray) :
            /\ 0 <= moveArray[k][1] /\ moveArray[k][1] < boardX
            /\ 0 <= moveArray[k][2] /\ moveArray[k][2] < boardY
            /\ Board[moveArray[k][1]][moveArray[k][2]] # 2

\* a call from a source outside the board that returns a position, with one
\* target off the board, one Visited and one Current
C6_Witness ==
    /\ pc = "ret"
    /\ <<x, y>> \notin Cells
    /\ Len(moveArray) >= 1
    /\ \E k \in 1..8 : Targets[k] \notin Cells
    /\ \E k \in 1..8 : Targets[k] \in Cells /\ Board[Targets[k][1]][Targets[k][2]] = 2
    /\ \E k \in 1..8 : Targets[k] \in Cells /\ Board[Targets[k][1]][Targets[k][2]] = 1

\* C7: findMovesFromSquare(x, y) returns exactly the squares source + offset
\* for the eight offsets (2,1),(1,2),(-1,2),(-2,1),(-2,-1),(-1,-2),(1,-2),
\* (2,-1), in that order, that are on the board and not Visited: none that
\* qualifies is omitted, none is returned twice, and the order is the offset
\* order.
C7_ExactlyTheQualifyingOffsets ==
    (pc = "ret") =>
        /\ moveArray = SelectSeq(Targets, Qualifies)
        /\ \A i \in 1..Len(moveArray) : \A j \in 1..Len(moveArray) :
              (i < j) => (moveArray[i] # moveArray[j])

\* a call that returns two positions in offset order and leaves out a
\* Visited target and a target off the board
C7_Witness ==
    /\ pc = "ret"
    /\ Len(moveArray) >= 2
    /\ \E k \in 1..8 : Targets[k] \notin Cells
    /\ \E k \in 1..8 : Targets[k] \in Cells /\ Board[Targets[k][1]][Targets[k][2]] = 2

----------------------------------------------------------------------------
(* Further properties of the tour driver (Spec) *)

\* C11: on a 1 x 1 board the driver halts at once without a move: movesMade
\* stays 0, the board stays as placed, no further board is written, and the
\* test movesMade == rows * cols - 1 reports the tour as completed.
C11_OneByOne ==
    (boardX = 1 /\ boardY = 1)
        => (/\ movesMade = 0
            /\ Board = [i \in {0} |-> [j \in {0} |-> 1]]
            /\ path = <<(<<0, 0>>)>>
            /\ printCount = 1
            /\ LegalFromKnight = {}
            /\ (pc = "done") => (message = "Tour Completed!"))

\* the finished run on the 1 x 1 board
C11_Witness ==
    /\ boardX = 1
    /\ boardY = 1
    /\ pc = "done"
    /\ message # ""

\* C12: on a 3 x 3 board with the knight started at (1, 1) the driver halts
\* with fewer than 8 moves and main writes "No More Moves!".
C12_ThreeByThreeFromCentre ==
    (boardX = 3 /\ boardY = 3 /\ start = <<1, 1>>)
        => (/\ Halted => (movesMade < 8)
            /\ (pc = "done") => (message = "No More Moves!"))

\* the finished run on the 3 x 3 board from the centre
C12_Witness ==
    /\ boardX = 3
    /\ boardY = 3
    /\ start = <<1, 1>>
    /\ pc = "done"
    /\ message # ""

\* the three glyphs of a board, cell by cell
ShownAs(B) ==
    [i \in 0..(boardX - 1) |-> [j \in 0..(boardY - 1) |->
        IF B[i][j] = 1 THEN "[K]" ELSE IF B[i][j] = 2 THEN "[/]" ELSE "[ ]"]]

\* C13: the board is written once before the first step, showing only the
\* start cell as Current, and once after every successful step, showing the
\* board as that step left it; nothing is written by a step that finds no
\* candidate, so a halted run has written movesMade + 1 boards.
C13_RenderedOncePerStep ==
    /\ [](printCount = movesMade + 1)
    /\ [](lastPrinted = ShownAs(Board))
    /\ []((movesMade = 0) =>
            (\A c \in Cells : (lastPrinted[c[1]][c[2]] = "[K]") <=> (c = start)))
    /\ []((movesMade = 0) =>
            (\A c \in Cells : (lastPrinted[c[1]][c[2]] = "[ ]") <=> (c # start)))
    /\ [][(movesMade' # movesMade)
            => (printCount' = printCount + 1 /\ lastPrinted' = ShownAs(Board'))]_vars
    /\ [][(movesMade' = movesMade)
            => (printCount' = printCount /\ lastPrinted' = lastPrinted)]_vars

\* a run that halted after several moves, each of them written
C13_Witness ==
    /\ Halted
    /\ movesMade >= 3
    /\ printCount = movesMade + 1


\* C15: a successful step changes exactly two cells, the one the knight
\* leaves (Current to Visited) and the selected candidate (to Current),
\* leaves every other cell as it is, puts the knight on the selected
\* candidate and adds exactly 1 to movesMade.
C15_StepChangesTwoCells ==
    [][(movesMade' # movesMade) =>
         LET from == <<knightRow, knightCol>>
             to   == <<knightRow', knightCol'>>
         IN  /\ from # to
             /\ to \in LegalFromKnight
             /\ DOMAIN Board' = DOMAIN Board
             /\ \A i \in DOMAIN Board : DOMAIN Board'[i] = DOMAIN Board[i]
             /\ {c \in Cells : Board'[c[1]][c[2]] # Board[c[1]][c[2]]} = {from, to}
             /\ Board[from[1]][from[2]] = 1
             /\ Board'[from[1]][from[2]] = 2
             /\ Board'[to[1]][to[2]] = 1
             /\ movesMade' = movesMade + 1]_vars

\* a state reached by a step, with Visited cells behind the knight and
\* Unvisited cells and a legal move ahead
C15_Witness ==
    /\ pc = "makeMove"
    /\ movesMade >= 1
    /\ CellsIn(2) # {}
    /\ CellsIn(0) # {}
    /\ LegalFromKnight # {}

\* C17: once the driver has halted, the square the knight occupied last is
\* still Current and stays so: the halted board has exactly one Current
\* cell, and neither the halting invocation nor main changes the board.
C17_LastSquareStaysCurrent ==
    /\ [](Halted => (/\ Board[knightRow][knightCol] = 1
                     /\ Cardinality(CellsIn(1)) = 1
                     /\ path[Len(path)] = <<knightRow, knightCol>>))
    /\ [][(pc = "makeMove" /\ pc' # "makeMove") => (Board' = Board)]_vars
    /\ [][Halted => (Board' = Board)]_vars

\* a run that has ended after some moves, the last square still Current
C17_Witness ==
    /\ pc = "done"
    /\ movesMade >= 1
    /\ Board[knightRow][knightCol] = 1

\* C19: in every state of a run movesMade is the number of Visited cells,
\* and the number of cells that are not Unvisited is movesMade + 1.
C19_CountMatchesBoard ==
    /\ movesMade = Cardinality(CellsIn(2))
    /\ Cardinality(Cells \ CellsIn(0)) = movesMade + 1

\* a state some moves into a run
C19_Witness ==
    /\ movesMade >= 3
    /\ Cardinality(CellsIn(2)) = movesMade
    /\ CellsIn(0) # {}


----------------------------------------------------------------------------
(* The calls one invocation of makeMove makes to the move generator *)

\* line 116: the first-order call, from the knight's square
FirstOrderCall == findMovesFromSquare(knightRow, knightCol, boardX, boardY, Board)

\* line 121: the second-order call from candidate p
SecondOrderCall(p) == findMovesFromSquare(p[1], p[2], boardX, boardY, Board)

\* the number of times position p occurs in vector seq
Occurrences(seq, p) == Cardinality({k \in 1..Len(seq) : seq[k] = p})

\* vector seq holds a position whose cell is Current
ReturnsCurrent(seq) == \E k \in 1..Len(seq) : Board[seq[k][1]][seq[k][2]] = 1

\* C16 as stated: no call the driver makes to the move generator, first-order
\* or second-order, returns the cell marked Current (here on the boards main
\* accepts, 3 rows and columns or more).
C16_NoCallReturnsCurrent ==
    (pc = "makeMove" /\ boardX >= 3 /\ boardY >= 3)
        => (/\ ~ReturnsCurrent(FirstOrderCall)
            /\ \A k \in 1..Len(FirstOrderCall) :
                  ~ReturnsCurrent(SecondOrderCall(FirstOrderCall[k])))

\* C16 as amended: the first-order call from the knight's square never
\* returns the cell marked Current; every second-order call from a candidate
\* returns it, exactly once, and it is the knight's square.
C16_OnlySecondOrderReturnsCurrent ==
    (pc = "makeMove")
        => (/\ ~ReturnsCurrent(FirstOrderCall)
            /\ \A k \in 1..Len(FirstOrderCall) :
                  LET second == SecondOrderCall(FirstOrderCall[k])
                  IN  /\ Occurrences(second, <<knightRow, knightCol>>) = 1
                      /\ \A j \in 1..Len(second) :
                            (Board[second[j][1]][second[j][2]] = 1)
                                => (second[j] = <<knightRow, knightCol>>))

\* an invocation, some moves into a run, that makes several second-order
\* calls
C16_Witness ==
    /\ pc = "makeMove"
    /\ movesMade >= 1
    /\ Len(FirstOrderCall) >= 2
    /\ ReturnsCurrent(SecondOrderCall(FirstOrderCall[1]))


\* position (r, c) is inside the extents of the vector Board
InsideBoard(r, c) ==
    /\ r \in DOMAIN Board
    /\ c \in DOMAIN Board[r]

\* every cell findMovesFromSquare reads when called with source s, that is
\* every target that passes isOnBoard, is inside the board
ReadsInside(s) ==
    \A i \in 1..8 :
        isOnBoard(s[1] + dx[i], s[2] + dy[i], boardX, boardY)
            => InsideBoard(s[1] + dx[i], s[2] + dy[i])

\* C18: in every invocation of makeMove every read and write of Board[r][c]
\* has 0 <= r < rows and 0 <= c < cols (the cell is read only after
\* isOnBoard holds), findMinimumIndex is only called with a non-empty
\* vector, and the index it returns is a valid index of the candidates.
C18_CoreIsTotal ==
    (pc = "makeMove")
        => (/\ DOMAIN Board = 0..(boardX - 1)
            /\ \A i \in DOMAIN Board : DOMAIN Board[i] = 0..(boardY - 1)
            /\ InsideBoard(knightRow, knightCol)
            /\ ReadsInside(<<knightRow, knightCol>>)
            /\ \A k \in 1..Len(FirstOrderCall) :
                  /\ InsideBoard(FirstOrderCall[k][1], FirstOrderCall[k][2])
                  /\ ReadsInside(FirstOrderCall[k])
            /\ hasMoves(FirstOrderCall)
                  => LET sizes == sizesOf(FirstOrderCall, boardX, boardY, Board)
                         index == findMinimumIndex(sizes)
                     IN  /\ Len(sizes) = Len(FirstOrderCall)
                         /\ Len(sizes) >= 1
                         /\ 0 <= index
                         /\ index < Len(FirstOrderCall))

\* an invocation with the knight near an edge: some targets fall off the
\* board, some are Visited, and several candidates are left to score
C18_Witness ==
    /\ pc = "makeMove"
    /\ movesMade >= 1
    /\ Len(FirstOrderCall) >= 2
    /\ \E i \in 1..8 : ~isOnBoard(knightRow + dx[i], knightCol + dy[i], boardX, boardY)
    /\ \E i \in 1..8 :
         /\ isOnBoard(knightRow + dx[i], knightCol + dy[i], boardX, boardY)
         /\ Board[knightRow + dx[i]][knightCol + dy[i]] = 2

\* the board with the knight's square already marked Visited
BoardKnightVisited == [Board EXCEPT ![knightRow][knightCol] = 2]

\* C20: the second-order counts are taken while the knight's square is
\* still Current, so every count includes the move back to it: it is the
\* number of true onward moves plus 1, hence at least 1; and the square
\* chosen at every step is the one that the true onward counts (taken with
\* the knight's square Visited) would choose, by value and offset order and
\* by the program's own scan.
C20_SameChoiceAsTrueCounts ==
    /\ []((pc = "makeMove") =>
            \A k \in 1..Len(FirstOrderCall) :
                LET c == FirstOrderCall[k]
                    n == sizesOf(FirstOrderCall, boardX, boardY, Board)[k]
                IN  /\ n >= 1
                    /\ Occurrences(SecondOrderCall(c), <<knightRow, knightCol>>) = 1
                    /\ n = OnwardCount(BoardKnightVisited, c) + 1)
    /\ [][(movesMade' # movesMade) =>
            LET to   == <<knightRow', knightCol'>>
                cand == LegalOn(Board, knightRow, knightCol)
                trueSizes == sizesOf(FirstOrderCall, boardX, boardY, BoardKnightVisited)
            IN  /\ to \in cand
                /\ \A q \in cand :
                      \/ OnwardCount(BoardKnightVisited, to) < OnwardCount(BoardKnightVisited, q)
                      \/ /\ OnwardCount(BoardKnightVisited, to) = OnwardCount(BoardKnightVisited, q)
                         /\ OffsetRank(knightRow, knightCol, to)
                               <= OffsetRank(knightRow, knightCol, q)
                /\ to = FirstOrderCall[findMinimumIndex(trueSizes) + 1]]_vars

\* an invocation with several candidates, one of which has no true onward
\* move at all and is counted 1 only for the move back
C20_Witness ==
    /\ pc = "makeMove"
    /\ movesMade >= 1
    /\ Cardinality(LegalFromKnight) >= 2
    /\ \E c \in LegalFromKnight : OnwardCount(BoardKnightVisited, c) = 0
    /\ \E c \in LegalFromKnight : OnwardCount(BoardKnightVisited, c) >= 2


----------------------------------------------------------------------------
(* Properties of the console input (SpecInput) *)

\* the values accepted so far, in the order they are asked for
RowsAccepted     == pc \notin {"rows"}
ColsAccepted     == pc \notin {"rows", "cols"}
StartRowAccepted == pc \notin {"rows", "cols", "startRow"}
StartColAccepted == pc \notin {"rows", "cols", "startRow", "startCol"}

\* C14: whatever the console delivers (numbers out of range, text that is
\* no number, the end of the input), when the collection of the inputs is
\* complete the values handed to the core satisfy 3 <= rows <= 10,
\* 3 <= cols <= 10, 0 <= startRow < rows and 0 <= startCol < cols; a
\* rejected input changes no accepted value and only leads to the same
\* prompt again.
C14_InputsValidated ==
    /\ [](RowsAccepted => (3 <= boardX /\ boardX <= 10))
    /\ [](ColsAccepted => (3 <= boardY /\ boardY <= 10))
    /\ [](StartRowAccepted => (0 <= start[1] /\ start[1] < boardX))
    /\ [](StartColAccepted => (0 <= start[2] /\ start[2] < boardY))
    /\ []((pc = "makeMove") =>
            (/\ knightRow = start[1]
             /\ knightCol = start[2]
             /\ DOMAIN Board = 0..(boardX - 1)
             /\ \A i \in DOMAIN Board : DOMAIN Board[i] = 0..(boardY - 1)
             /\ Board[start[1]][start[2]] = 1))
    /\ [][(pc \in InputPhases /\ pc' = pc)
            => (/\ boardX' = boardX
                /\ boardY' = boardY
                /\ start' = start
                /\ buffer' = <<>>)]_vars
    /\ [][(pc = "rows") => (prompt' = "Enter number of rows (between 3-10):")]_vars
    /\ [][(pc = "cols") => (prompt' = "Enter number of columns (between 3-10):")]_vars
    /\ [][(pc = "startRow") => (prompt' = "Enter starting row of knight:")]_vars
    /\ [][(pc = "startCol") => (prompt' = "Enter starting column of knight:")]_vars
    /\ [][(RowsAccepted => boardX' = boardX) /\ (ColsAccepted => boardY' = boardY)]_vars
    /\ [][(StartRowAccepted => start'[1] = start[1])
            /\ (StartColAccepted => start' = start)]_vars

\* the knight placed on the last row of a board of 10 rows and 3 columns,
\* with text left over on the console line
C14_Witness ==
    /\ pc = "makeMove"
    /\ boardX = 10
    /\ boardY = 3
    /\ start = <<9, 2>>
    /\ buffer # <<>>

====
